---- MODULE Spec2Model ----
(***************************************************************************)
(* TorController (app/tor_control.ts): the control-port session, the two   *)
(* HTTP clients and the changeIP rotation cycle.                           *)
(*                                                                         *)
(* Text is a sequence of one-character strings, so that startsWith,        *)
(* includes and trim are computed on characters as the code computes them. *)
(* A message built from a fixed literal carries the literal as one piece.  *)
(***************************************************************************)
EXTENDS Integers, Sequences, FiniteSets, TLC

\* ---------------------------------------------------------------- bounds
\* changeIP invocations in one behaviour
MaxCalls == 2

\* seconds the clock can reach
MaxTime == 10

\* seconds that pass in one step of the clock
TickSeconds == 5

\* the documented cooldown between two changeIP, in seconds
Cooldown == 10

\* invocations served by the scripted daemon in one behaviour
MaxSessions == 1

\* asynchronous notifications the daemon emits on one connection
MaxEvents == 1

\* reads of the wait loop that yield no bytes, counted up to here
MaxIdle == 1

\* new Uint8Array(1024): the most one read takes
BufferSize == 1024

\* the callers that invoke changeIP on the one controller
Procs == {"c1", "c2"}

\* ------------------------------------------------------------ text values
Null == "null"
Addresses == {"ip1", "ip2"}

Reply250 == <<"2", "5", "0", " ", "O", "K", "\r", "\n">>
Reply515 == <<"5", "1", "5", " ", "B", "a", "d", "\r", "\n">>
ReplyLead250 == <<" ", "2", "5", "0", " ", "O", "K", "\r", "\n">>
Reply552 == <<"5", "5", "2", " ", "B", "a", "d", "\r", "\n">>
EventBuilt == <<"6", "5", "0", " ", "C", "I", "R", "C", " ", "7", " ", "B", "U", "I", "L", "T", "\r", "\n">>
EventLaunched == <<"6", "5", "0", " ", "C", "I", "R", "C", " ", "7", " ", "L", "A", "U", "N", "C", "H", "E", "D", "\r", "\n">>

\* what one conn.read can yield: bytes, no bytes (null), or a rejected promise
Data(text) == [kind |-> "data", text |-> text]
NoBytes == [kind |-> "none", text |-> <<>>]
ReadError == [kind |-> "error", text |-> <<>>]

AuthReads == {Data(Reply250), Data(Reply515), Data(ReplyLead250), NoBytes, ReadError}
NewnymReads == {Data(Reply250), Data(Reply552), Data(ReplyLead250), NoBytes, ReadError}
AckReads == {Data(Reply250), Data(Reply552), Data(Reply250 \o EventBuilt), NoBytes, ReadError}
EventReads == {Data(EventBuilt), Data(EventLaunched), Data(Reply250),
               Data(EventLaunched \o EventBuilt), NoBytes, ReadError}
UnsubReads == {Data(Reply250), Data(EventLaunched), NoBytes, ReadError}

\* the IP-echo endpoint's answer to one GET
ProbeResponses ==
    [net : {"ok", "error"}, status : {"ok", "bad"}, body : Addresses \cup {"undecodable"}]

\* ------------------------------------------------------------ text helpers
Whitespace == {" ", "\r", "\n", "\t"}

RECURSIVE TrimStart(_)
TrimStart(s) ==
    IF s # <<>> /\ Head(s) \in Whitespace THEN TrimStart(Tail(s)) ELSE s

RECURSIVE TrimEnd(_)
TrimEnd(s) ==
    IF s # <<>> /\ s[Len(s)] \in Whitespace THEN TrimEnd(SubSeq(s, 1, Len(s) - 1)) ELSE s

\* String.prototype.trim
Trim(s) == TrimEnd(TrimStart(s))

\* String.prototype.startsWith
StartsWith(s, prefix) ==
    Len(s) >= Len(prefix) /\ SubSeq(s, 1, Len(prefix)) = prefix

\* String.prototype.includes
Includes(s, part) ==
    \E i \in 1..(Len(s) - Len(part) + 1) : SubSeq(s, i, i + Len(part) - 1) = part

\* a check that looks for 250 anywhere in the reply
Starts250Lenient(response) == Includes(response, <<"2", "5", "0">>)

\* response.startsWith("250")
Starts250(response) == StartsWith(response, <<"2", "5", "0">>)

\* event.includes("650 CIRC") && event.includes("BUILT")
IsBuiltEvent(event) ==
    /\ Includes(event, <<"6", "5", "0", " ", "C", "I", "R", "C">>)
    /\ Includes(event, <<"B", "U", "I", "L", "T">>)

\* ------------------------------------------------------------------ state
NoConn == 0
NoClient == 0

VARIABLES
    conn,           \* this.conn: index into socks, or NoConn
    socks,          \* every control socket opened: closes, commands written
    proxiedClient,  \* this.proxiedClient: index into clients
    publicClient,   \* this.publicClient: index into clients
    clients,        \* every HTTP client constructed: kind, number of close() calls
    pc,             \* where each changeIP invocation is suspended
    oldIP,          \* changeIP's local oldIP
    newIP,          \* changeIP's local newIP
    result,         \* what the invocation returned
    inv,            \* per invocation: what it did (history)
    calls,          \* invocations started
    fetched,        \* the client the latest fetchThroughTor went through
    now,            \* the clock, in seconds
    api,            \* the latest call of a public method besides changeIP: its outcome
    inbound,        \* bytes the daemon has sent on the connection, not yet read
    daemon          \* the daemon's end: the socket it serves, what it has sent,
                    \* what the client has taken from it

vars == <<conn, socks, proxiedClient, publicClient, clients, pc, oldIP, newIP,
          result, inv, calls, fetched, now, api, inbound, daemon>>

\* the daemon's side of the connection
net == <<inbound, daemon>>

\* no answer of the HTTP endpoint is involved in a call
NoResponse == [net |-> "none", status |-> "none", body |-> "none"]

\* no public method besides changeIP was called yet; flip changes with every
\* disconnect
NoCall ==
    [op |-> "none", arg |-> "none", resp |-> NoResponse, raised |-> FALSE,
     value |-> Null, flip |-> FALSE]

\* nothing accepted yet: the socket served, commands answered, notifications
\* emitted (and how many of them BUILT), how the daemon ended the connection,
\* the chunk the client took as the SETEVENTS CIRC reply, empty reads of the
\* wait loop
NoDaemon ==
    [sock |-> NoConn, seen |-> 0, events |-> 0, built |-> 0, end |-> "open",
     ack |-> <<>>, idle |-> 0]

NoResult == [success |-> FALSE, oldIP |-> Null, newIP |-> Null, message |-> <<>>]

NoHistory ==
    [call |-> 0, startedAt |-> 0, prevAt |-> -1, sock |-> NoConn, startClient |-> NoClient, newClient |-> NoClient,
     probeClient |-> NoClient, built |-> FALSE, fault |-> "none",
     authReply |-> <<>>, nymReply |-> <<>>, classified |-> FALSE, swapped |-> FALSE,
     stale |-> FALSE, entered |-> FALSE, idle |-> FALSE, tokens |-> {}]

\* the state after `new TorController(...)` returned without throwing
Init ==
    /\ conn = NoConn
    /\ socks = <<>>
    /\ clients = <<[kind |-> "proxied", closes |-> 0], [kind |-> "direct", closes |-> 0]>>
    /\ proxiedClient = 1
    /\ publicClient = 2
    /\ pc = [p \in Procs |-> "idle"]
    /\ oldIP = [p \in Procs |-> Null]
    /\ newIP = [p \in Procs |-> Null]
    /\ result = [p \in Procs |-> NoResult]
    /\ inv = [p \in Procs |-> NoHistory]
    /\ calls = 0
    /\ fetched = NoClient
    /\ now = 0
    /\ api = NoCall
    /\ inbound = <<>>
    /\ daemon = NoDaemon

\* --------------------------------------------------------------- getCurrentIP
\* the connectionConfig getter, for CONNECTION.TOR
ConnectionConfigTor == proxiedClient

\* getCurrentIP: the address, or null when the client is missing, the fetch
\* rejects (a closed client, a network error) or the body does not decode
GetCurrentIP(client, resp) ==
    IF client = NoClient THEN Null
    ELSE IF clients[client].closes > 0 THEN Null
    ELSE IF resp.net = "error" THEN Null
    ELSE IF resp.body = "undecodable" THEN Null
    ELSE resp.body

\* ---------------------------------------------------------- changeIP pieces
\* String(error) of the errors the steps raise
ErrNotConnected == <<"Error: ", "Not connected to Tor control port">>
ErrNoResponse == <<"Error: ", "No response from Tor control port">>
ErrConnectRaw == <<"ConnectionRefused: ", "Connection refused">>
ErrConnect == <<"Error: ", "Failed to connect to Tor control port: ", "ConnectionRefused">>
ErrAuthNoReply(response) == <<"Error: ", "Authentication failed">>
ErrAuth(response) == <<"Error: ", "Authentication failed", ": ">> \o Trim(response)
ErrIO == <<"BadResource: ", "I/O fault on the control connection">>
ErrNullConn == <<"TypeError: ", "Cannot read properties of null">>
ErrClientClose == <<"BadResource: ", "Bad resource ID">>
ErrClientInit == <<"TypeError: ", "HTTP client could not be constructed">>

\* the catch block's result
CatchResult(error) ==
    [success |-> FALSE, oldIP |-> Null, newIP |-> Null,
     message |-> <<"Error changing IP: ">> \o error]

\* the early return on a NEWNYM reply that is not 250
RejectedResult(old, response) ==
    [success |-> FALSE, oldIP |-> old, newIP |-> Null,
     message |-> <<"Failed to request new circuit: ">> \o Trim(response)]

\* a classification that forgets the null test
SuccessIgnoresNull(new, old) == new # old

\* const success = newIP !== null && newIP !== oldIP
Success(new, old) == new # Null /\ new # old

\* a message choice without the same-IP variant
MessageForNoSame(new, old) ==
    IF new # Null /\ new # old THEN <<"IP changed successfully">>
    ELSE <<"Failed to get new IP">>

\* the message of the final return
MessageFor(new, old) ==
    IF Success(new, old) THEN <<"IP changed successfully">>
    ELSE IF new = old THEN <<"IP change requested but same IP returned">>
    ELSE <<"Failed to get new IP">>

ClassifiedResult(new, old) ==
    [success |-> Success(new, old), oldIP |-> old, newIP |-> new,
     message |-> MessageFor(new, old)]

\* conn.close() on a socket that is already closed rejects
FinallyThrows == conn # NoConn /\ socks[conn].closes > 0

\* the finally block: if (this.conn) { this.conn.close(); this.conn = null; }
FinallyConn == IF conn # NoConn /\ ~FinallyThrows THEN NoConn ELSE conn

\* a finally block that drops the reference without closing
FinallySocksLeak == socks

FinallySocks ==
    IF conn # NoConn THEN [socks EXCEPT ![conn].closes = @ + 1] ELSE socks

\* the invocation settles: its return value, after the finally block ran
Settle(p, res) ==
    /\ result' = [result EXCEPT ![p] = res]
    /\ pc' = [pc EXCEPT ![p] = IF FinallyThrows THEN "raised" ELSE "done"]
    /\ conn' = FinallyConn
    /\ socks' = FinallySocks

\* a try block without the catch: the finally runs and the error escapes
ThrowEscapes(p, step, error) ==
    /\ pc' = [pc EXCEPT ![p] = "raised"]
    /\ conn' = FinallyConn
    /\ socks' = FinallySocks
    /\ inv' = [inv EXCEPT ![p].fault = step]
    /\ UNCHANGED <<proxiedClient, publicClient, clients, oldIP, newIP, result, calls,
                   fetched, now, api>>

\* a step raised inside the try block: catch, then finally
Throw(p, step, error) ==
    /\ Settle(p, CatchResult(error))
    /\ inv' = [inv EXCEPT ![p].fault = step]
    /\ UNCHANGED <<proxiedClient, publicClient, clients, oldIP, newIP, calls, fetched, now, api>>

InFlight(p) == pc[p] \notin {"idle", "done", "raised"}

\* ------------------------------------------------------------------ actions
\* when changeIP was invoked the last time before now, -1 if never
PreviousCallAt ==
    IF calls = 0 THEN -1
    ELSE (CHOOSE h \in {inv[q] : q \in Procs} : h.call = calls).startedAt

\* changeIP is invoked while no other invocation is in flight
StartSerial(p) ==
    /\ UNCHANGED net
    /\ ~InFlight(p)
    /\ \A q \in Procs : ~InFlight(q)
    /\ calls < MaxCalls
    /\ calls' = calls + 1
    /\ pc' = [pc EXCEPT ![p] = "probeOld"]
    /\ oldIP' = [oldIP EXCEPT ![p] = Null]
    /\ newIP' = [newIP EXCEPT ![p] = Null]
    /\ result' = [result EXCEPT ![p] = NoResult]
    /\ inv' = [inv EXCEPT ![p] = [NoHistory EXCEPT !.call = calls + 1,
                                                   !.startedAt = now,
                                                   !.prevAt = PreviousCallAt,
                                                   !.startClient = proxiedClient]]
    /\ UNCHANGED <<conn, socks, proxiedClient, publicClient, clients, fetched, now, api>>

\* const oldIP = await this.getCurrentIP(CONNECTION.TOR)
ProbeOld(p, resp) ==
    /\ UNCHANGED net
    /\ pc[p] = "probeOld"
    /\ oldIP' = [oldIP EXCEPT ![p] = GetCurrentIP(ConnectionConfigTor, resp)]
    /\ pc' = [pc EXCEPT ![p] = "connect"]
    /\ UNCHANGED <<conn, socks, proxiedClient, publicClient, clients, newIP, result,
                   inv, calls, fetched, now, api>>

\* connect(): if (this.conn) return; otherwise Deno.connect is started
ConnectBegin(p) ==
    /\ UNCHANGED net
    /\ pc[p] = "connect"
    /\ pc' = [pc EXCEPT ![p] = IF conn # NoConn THEN "authWrite" ELSE "connecting"]
    /\ UNCHANGED <<conn, socks, proxiedClient, publicClient, clients, oldIP, newIP,
                   result, inv, calls, fetched, now, api>>

\* Deno.connect resolved: this.conn = the new socket
ConnectOk(p) ==
    /\ UNCHANGED net
    /\ pc[p] = "connecting"
    /\ socks' = Append(socks, [closes |-> 0, wire |-> <<>>])
    /\ conn' = Len(socks) + 1
    /\ inv' = [inv EXCEPT ![p].sock = Len(socks) + 1]
    /\ pc' = [pc EXCEPT ![p] = "authWrite"]
    /\ UNCHANGED <<proxiedClient, publicClient, clients, oldIP, newIP, result, calls,
                   fetched, now, api>>

\* Deno.connect rejected: connect rethrows, changeIP catches
ConnectFail(p) ==
    /\ UNCHANGED net
    /\ pc[p] = "connecting"
    /\ Throw(p, "connect", ErrConnect)

\* a sendCommand without the connection check: writing to null is a TypeError
WriteUnchecked(p, at, command, ok, next) ==
    /\ UNCHANGED net
    /\ pc[p] = at
    /\ IF conn = NoConn
       THEN Throw(p, "sendCommand", ErrNullConn)
       ELSE IF ~ok \/ socks[conn].closes > 0
       THEN Throw(p, "sendCommand", ErrIO)
       ELSE /\ socks' = [socks EXCEPT ![conn].wire = Append(@, [command |-> command, at |-> now])]
            /\ pc' = [pc EXCEPT ![p] = next]
            /\ UNCHANGED <<conn, proxiedClient, publicClient, clients, oldIP, newIP,
                           result, inv, calls, fetched, now, api>>

\* sendCommand up to its write: NotConnected without a connection, else the
\* command goes out on the connection (or the write rejects)
Write(p, at, command, ok, next) ==
    /\ UNCHANGED net
    /\ pc[p] = at
    /\ IF conn = NoConn
       THEN Throw(p, "sendCommand", ErrNotConnected)
       ELSE IF ~ok \/ socks[conn].closes > 0
       THEN Throw(p, "sendCommand", ErrIO)
       ELSE /\ socks' = [socks EXCEPT ![conn].wire = Append(@, [command |-> command, at |-> now])]
            /\ pc' = [pc EXCEPT ![p] = next]
            /\ UNCHANGED <<conn, proxiedClient, publicClient, clients, oldIP, newIP,
                           result, inv, calls, fetched, now, api>>

\* sendCommand's read: the decoded chunk, or the error it raises (this.conn
\* gone: the pending read rejects, or reading null is a TypeError; the read
\* rejecting; no bytes)
ReadFault(read) ==
    IF conn = NoConn THEN (IF read.kind = "error" THEN ErrIO ELSE ErrNullConn)
    ELSE IF read.kind = "error" \/ socks[conn].closes > 0 THEN ErrIO
    ELSE IF read.kind = "none" THEN ErrNoResponse
    ELSE <<>>

\* authenticate(): sendCommand(`AUTHENTICATE "${password}"`), the write
AuthWrite(p, ok) == Write(p, "authWrite", "AUTHENTICATE", ok, "authRead")

\* authenticate(): the reply; anything not starting with 250 raises
OnAuthReply(p, read) ==
    /\ pc[p] = "authRead"
    /\ IF ReadFault(read) # <<>>
       THEN Throw(p, "sendCommand", ReadFault(read))
       ELSE IF ~Starts250(read.text)
       THEN /\ Settle(p, CatchResult(ErrAuth(read.text)))
            /\ inv' = [inv EXCEPT ![p].fault = "authenticate", ![p].authReply = read.text]
            /\ UNCHANGED <<proxiedClient, publicClient, clients, oldIP, newIP, calls,
                           fetched, now, api>>
       ELSE /\ pc' = [pc EXCEPT ![p] = "newnymWrite"]
            /\ inv' = [inv EXCEPT ![p].authReply = read.text]
            /\ UNCHANGED <<conn, socks, proxiedClient, publicClient, clients, oldIP,
                           newIP, result, calls, fetched, now, api>>

\* authenticate(): the reply, read from whatever the daemon sent
AuthRead(p, read) == OnAuthReply(p, read) /\ UNCHANGED net

\* sendCommand("SIGNAL NEWNYM"), the write
NewnymWrite(p, ok) == Write(p, "newnymWrite", "SIGNAL NEWNYM", ok, "newnymRead")

\* the NEWNYM reply; anything not starting with 250 returns early
OnNewnymReply(p, read) ==
    /\ pc[p] = "newnymRead"
    /\ IF ReadFault(read) # <<>>
       THEN Throw(p, "sendCommand", ReadFault(read))
       ELSE IF ~Starts250(read.text)
       THEN /\ Settle(p, RejectedResult(oldIP[p], read.text))
            /\ inv' = [inv EXCEPT ![p].nymReply = read.text]
            /\ UNCHANGED <<proxiedClient, publicClient, clients, oldIP, newIP, calls,
                           fetched, now, api>>
       ELSE /\ pc' = [pc EXCEPT ![p] = "subscribeWrite"]
            /\ inv' = [inv EXCEPT ![p].nymReply = read.text]
            /\ UNCHANGED <<conn, socks, proxiedClient, publicClient, clients, oldIP,
                           newIP, result, calls, fetched, now, api>>

\* the NEWNYM reply, read from whatever the daemon sent
NewnymRead(p, read) == OnNewnymReply(p, read) /\ UNCHANGED net

\* a subscription that names no event class
SubscribeWriteBare(p, ok) == Write(p, "subscribeWrite", "SETEVENTS", ok, "subscribeRead")

\* waitForCircuitReady: sendCommand("SETEVENTS CIRC"), the write
SubscribeWrite(p, ok) == Write(p, "subscribeWrite", "SETEVENTS CIRC", ok, "subscribeRead")

\* waitForCircuitReady: the chunk read as the reply to SETEVENTS CIRC is only logged
OnSubscribeReply(p, read) ==
    /\ pc[p] = "subscribeRead"
    /\ IF ReadFault(read) # <<>>
       THEN Throw(p, "waitForCircuitReady", ReadFault(read))
       ELSE /\ pc' = [pc EXCEPT ![p] = "wait"]
            /\ inv' = [inv EXCEPT ![p].entered = TRUE]
            /\ UNCHANGED <<conn, socks, proxiedClient, publicClient, clients, oldIP,
                           newIP, result, calls, fetched, now, api>>

\* the SETEVENTS CIRC reply, read from whatever the daemon sent
SubscribeRead(p, read) == OnSubscribeReply(p, read) /\ UNCHANGED net

\* a wait loop that takes no bytes for an error, as sendCommand does
WaitFaultOnEmpty(read) ==
    IF conn = NoConn THEN (IF read.kind = "error" THEN ErrIO ELSE ErrNullConn)
    ELSE IF read.kind = "error" \/ socks[conn].closes > 0 THEN ErrIO
    ELSE IF read.kind = "none" THEN ErrNoResponse
    ELSE <<>>

\* the fault of one read of the wait loop: only a rejected read (or a missing
\* connection) raises; no bytes is `continue`
WaitFault(read) ==
    IF conn = NoConn THEN (IF read.kind = "error" THEN ErrIO ELSE ErrNullConn)
    ELSE IF read.kind = "error" \/ socks[conn].closes > 0 THEN ErrIO
    ELSE <<>>

\* which of the two tokens of a circuit-built notification a chunk holds
TokensIn(text) ==
    {token \in {<<"6", "5", "0", " ", "C", "I", "R", "C">>, <<"B", "U", "I", "L", "T">>} :
        Includes(text, token)}

\* one iteration of the wait loop ends the wait
WaitEnds(read) == read.kind = "data" /\ IsBuiltEvent(read.text)

\* waitForCircuitReady: one iteration of while (true)
OnEvent(p, read) ==
    /\ pc[p] = "wait"
    /\ IF WaitFault(read) # <<>>
       THEN Throw(p, "waitForCircuitReady", WaitFault(read))
       ELSE /\ pc' = [pc EXCEPT ![p] = IF WaitEnds(read) THEN "unsubWrite" ELSE "wait"]
            /\ inv' = [inv EXCEPT ![p].built = @ \/ WaitEnds(read),
                                   ![p].idle = (read.kind = "none"),
                                   ![p].tokens = IF WaitEnds(read) THEN TokensIn(read.text) ELSE @]
            /\ UNCHANGED <<conn, socks, proxiedClient, publicClient, clients, oldIP,
                           newIP, result, calls, fetched, now, api>>

\* one iteration of the wait loop, read from whatever the daemon sent
WaitRead(p, read) == OnEvent(p, read) /\ UNCHANGED net

\* waitForCircuitReady: sendCommand("SETEVENTS"), the write
UnsubWrite(p, ok) == Write(p, "unsubWrite", "SETEVENTS", ok, "unsubRead")

\* waitForCircuitReady: the reply to SETEVENTS; the method returns
OnUnsubReply(p, read) ==
    /\ pc[p] = "unsubRead"
    /\ IF ReadFault(read) # <<>>
       THEN Throw(p, "waitForCircuitReady", ReadFault(read))
       ELSE /\ pc' = [pc EXCEPT ![p] = "replace"]
            /\ UNCHANGED <<conn, socks, proxiedClient, publicClient, clients, oldIP,
                           newIP, result, inv, calls, fetched, now, api>>

\* the SETEVENTS reply, read from whatever the daemon sent
UnsubRead(p, read) == OnUnsubReply(p, read) /\ UNCHANGED net

\* a probe or fetch through client c is stale for an invocation that has
\* replaced the client it started with, when c is that client
MarkStale(c) ==
    [q \in Procs |->
        [inv[q] EXCEPT !.stale = @ \/ (inv[q].swapped /\ c = inv[q].startClient)]]

\* this.proxiedClient?.close()
ClosedClients ==
    IF proxiedClient = NoClient THEN clients
    ELSE [clients EXCEPT ![proxiedClient].closes = @ + 1]

\* this.proxiedClient = Deno.createHttpClient({proxy: ...})
InstalledClient == Len(clients) + 1

\* a rotation that goes on with the client it already has
ReplaceSkipped(p, closeThrows, createOk) ==
    /\ UNCHANGED net
    /\ pc[p] = "replace"
    /\ ~closeThrows /\ createOk
    /\ pc' = [pc EXCEPT ![p] = "probeNew"]
    /\ UNCHANGED <<conn, socks, proxiedClient, publicClient, clients, oldIP, newIP,
                   result, inv, calls, fetched, now, api>>

\* this.proxiedClient?.close(); this.proxiedClient = Deno.createHttpClient(...)
\* close() of a client that is already closed either rejects or does nothing;
\* either way it is one more close() call on that client
Replace(p, closeThrows, createOk) ==
    /\ UNCHANGED net
    /\ pc[p] = "replace"
    /\ closeThrows => (proxiedClient # NoClient /\ clients[proxiedClient].closes > 0)
    /\ IF closeThrows
       THEN /\ Settle(p, CatchResult(ErrClientClose))
            /\ clients' = ClosedClients
            /\ inv' = [inv EXCEPT ![p].fault = "dispose"]
            /\ UNCHANGED <<proxiedClient, publicClient, oldIP, newIP, calls, fetched, now,
                           api>>
       ELSE IF ~createOk
       THEN /\ Settle(p, CatchResult(ErrClientInit))
            /\ clients' = ClosedClients
            /\ inv' = [inv EXCEPT ![p].fault = "construct", ![p].swapped = TRUE]
            /\ UNCHANGED <<proxiedClient, publicClient, oldIP, newIP, calls, fetched, now, api>>
       ELSE /\ clients' = Append(ClosedClients, [kind |-> "proxied", closes |-> 0])
            /\ proxiedClient' = InstalledClient
            /\ inv' = [inv EXCEPT ![p].newClient = InstalledClient, ![p].swapped = TRUE]
            /\ pc' = [pc EXCEPT ![p] = "probeNew"]
            /\ UNCHANGED <<conn, socks, publicClient, oldIP, newIP, result, calls,
                           fetched, now, api>>

\* const newIP = await this.getCurrentIP(CONNECTION.TOR); classify; return
ProbeNew(p, resp) ==
    /\ UNCHANGED net
    /\ pc[p] = "probeNew"
    /\ newIP' = [newIP EXCEPT ![p] = GetCurrentIP(ConnectionConfigTor, resp)]
    /\ Settle(p, ClassifiedResult(GetCurrentIP(ConnectionConfigTor, resp), oldIP[p]))
    /\ inv' = [MarkStale(ConnectionConfigTor) EXCEPT
                  ![p].probeClient = ConnectionConfigTor, ![p].classified = TRUE]
    /\ UNCHANGED <<proxiedClient, publicClient, clients, oldIP, calls, fetched, now, api>>

\* fetchThroughTor: fetch(url, {client: this.proxiedClient, ...})
FetchThroughTor ==
    /\ UNCHANGED net
    /\ fetched' = proxiedClient
    /\ inv' = MarkStale(proxiedClient)
    /\ UNCHANGED <<conn, socks, proxiedClient, publicClient, clients, pc, oldIP, newIP,
                   result, calls, now, api>>

Next ==
    \/ \E p \in Procs :
        \/ StartSerial(p)
        \/ \E resp \in ProbeResponses : ProbeOld(p, resp)
        \/ ConnectBegin(p)
        \/ ConnectOk(p)
        \/ ConnectFail(p)
        \/ \E ok \in BOOLEAN : AuthWrite(p, ok)
        \/ \E read \in AuthReads : AuthRead(p, read)
        \/ \E ok \in BOOLEAN : NewnymWrite(p, ok)
        \/ \E read \in NewnymReads : NewnymRead(p, read)
        \/ \E ok \in BOOLEAN : SubscribeWrite(p, ok)
        \/ \E read \in AckReads : SubscribeRead(p, read)
        \/ \E read \in EventReads : WaitRead(p, read)
        \/ \E ok \in BOOLEAN : UnsubWrite(p, ok)
        \/ \E read \in UnsubReads : UnsubRead(p, read)
        \/ \E closeThrows, createOk \in BOOLEAN : Replace(p, closeThrows, createOk)
        \/ \E resp \in ProbeResponses : ProbeNew(p, resp)
    \/ FetchThroughTor

Spec == Init /\ [][Next]_vars

\* ------------------------------------------------------------ passing time
\* time passes between two invocations (an invocation takes less than a step
\* of the clock)
Tick ==
    /\ \A q \in Procs : ~InFlight(q)
    /\ now + TickSeconds <= MaxTime
    /\ now' = now + TickSeconds
    /\ UNCHANGED <<conn, socks, proxiedClient, publicClient, clients, pc, oldIP, newIP,
                   result, inv, calls, fetched, api, inbound, daemon>>

NextTimed == Next \/ Tick

SpecTimed == Init /\ [][NextTimed]_vars

\* ------------------------------------------------------- the scripted daemon
\* everything but the daemon's end of the connection
prog == <<conn, socks, proxiedClient, publicClient, clients, pc, oldIP, newIP,
          result, inv, calls, fetched, now, api>>

\* the daemon holds the other end of this.conn
Serving == conn # NoConn /\ daemon.sock = conn

\* the daemon accepts the connection Deno.connect opened
DaemonAccept ==
    /\ conn # NoConn
    /\ daemon.sock # conn
    /\ daemon' = [NoDaemon EXCEPT !.sock = conn]
    /\ inbound' = <<>>
    /\ UNCHANGED prog

\* the reply lines the daemon can give to a command
DaemonReplies(command) ==
    IF command = "AUTHENTICATE" THEN {Reply250, Reply515}
    ELSE IF command = "SIGNAL NEWNYM" THEN {Reply250, Reply552}
    ELSE {Reply250}

\* the daemon answers the next command written to the connection
DaemonReply(text) ==
    /\ Serving
    /\ daemon.end = "open"
    /\ daemon.seen < Len(socks[conn].wire)
    /\ text \in DaemonReplies(socks[conn].wire[daemon.seen + 1].command)
    /\ inbound' = inbound \o text
    /\ daemon' = [daemon EXCEPT !.seen = @ + 1]
    /\ UNCHANGED prog

\* the commands the daemon has answered leave CIRC events subscribed
Subscribed ==
    \E i \in 1..daemon.seen :
        /\ socks[conn].wire[i].command = "SETEVENTS CIRC"
        /\ \A j \in (i + 1)..daemon.seen : socks[conn].wire[j].command # "SETEVENTS"

\* the daemon emits a 650 CIRC notification to the subscribed connection
DaemonEmit(event) ==
    /\ Serving
    /\ daemon.end = "open"
    /\ Subscribed
    /\ daemon.events < MaxEvents
    /\ inbound' = inbound \o event
    /\ daemon' = [daemon EXCEPT !.events = @ + 1,
                                !.built = @ + (IF event = EventBuilt THEN 1 ELSE 0)]
    /\ UNCHANGED prog

\* the daemon ends the connection: an orderly close (what it sent can still
\* be read, then reads yield no bytes) or a reset (reads reject)
DaemonEnd(how) ==
    /\ Serving
    /\ daemon.end = "open"
    /\ daemon' = [daemon EXCEPT !.end = how]
    /\ inbound' = IF how = "reset" THEN <<>> ELSE inbound
    /\ UNCHANGED prog

Min(a, b) == IF a < b THEN a ELSE b

\* what await this.conn.read(buffer) can resolve to now: any non-empty
\* prefix of the unread bytes that fits the buffer; nothing while the daemon
\* is silent (the read stays pending)
Chunks ==
    IF ~Serving THEN {}
    ELSE IF daemon.end = "reset" THEN {ReadError}
    ELSE IF inbound # <<>>
    THEN {Data(SubSeq(inbound, 1, n)) : n \in 1..Min(Len(inbound), BufferSize)}
    ELSE IF daemon.end = "eof" THEN {NoBytes}
    ELSE {}

\* the bytes left unread after a read
Rest(read) == SubSeq(inbound, Len(read.text) + 1, Len(inbound))

\* the IP-echo endpoint answers every probe with an address: the scripted
\* daemon's behaviours differ in the control stream only
EchoAnswers ==
    {resp \in ProbeResponses :
        resp.net = "ok" /\ resp.status = "ok" /\ resp.body \in Addresses}

\* changeIP is invoked on a controller whose daemon is the scripted one
StartSession(p) ==
    /\ calls < MaxSessions
    /\ StartSerial(p)

AuthReadStream(p) ==
    \E read \in Chunks :
        /\ OnAuthReply(p, read)
        /\ inbound' = Rest(read)
        /\ UNCHANGED daemon

NewnymReadStream(p) ==
    \E read \in Chunks :
        /\ OnNewnymReply(p, read)
        /\ inbound' = Rest(read)
        /\ UNCHANGED daemon

SubscribeReadStream(p) ==
    \E read \in Chunks :
        /\ OnSubscribeReply(p, read)
        /\ inbound' = Rest(read)
        /\ daemon' = [daemon EXCEPT !.ack = read.text]

WaitReadStream(p) ==
    \E read \in Chunks :
        /\ read.kind = "none" => daemon.idle < MaxIdle
        /\ OnEvent(p, read)
        /\ inbound' = Rest(read)
        /\ daemon' = [daemon EXCEPT !.idle = IF read.kind = "none" THEN @ + 1 ELSE @]

UnsubReadStream(p) ==
    \E read \in Chunks :
        /\ OnUnsubReply(p, read)
        /\ inbound' = Rest(read)
        /\ UNCHANGED daemon

NextDaemon ==
    \/ \E p \in Procs :
        \/ StartSession(p)
        \/ \E resp \in EchoAnswers : ProbeOld(p, resp)
        \/ ConnectBegin(p)
        \/ ConnectOk(p)
        \/ ConnectFail(p)
        \/ \E ok \in BOOLEAN : AuthWrite(p, ok)
        \/ AuthReadStream(p)
        \/ \E ok \in BOOLEAN : NewnymWrite(p, ok)
        \/ NewnymReadStream(p)
        \/ \E ok \in BOOLEAN : SubscribeWrite(p, ok)
        \/ SubscribeReadStream(p)
        \/ WaitReadStream(p)
        \/ \E ok \in BOOLEAN : UnsubWrite(p, ok)
        \/ UnsubReadStream(p)
        \/ \E closeThrows, createOk \in BOOLEAN : Replace(p, closeThrows, createOk)
        \/ \E resp \in EchoAnswers : ProbeNew(p, resp)
    \/ DaemonAccept
    \/ \E text \in {Reply250, Reply515, Reply552} : DaemonReply(text)
    \/ \E event \in {EventBuilt, EventLaunched} : DaemonEmit(event)
    \/ \E how \in {"eof", "reset"} : DaemonEnd(how)

SpecDaemon == Init /\ [][NextDaemon]_vars

\* -------------------------------------------------- the other public methods
CONNECTION == {"tor", "normal"}

\* the connectionConfig getter
ConnectionConfig(mode) == IF mode = "tor" THEN proxiedClient ELSE publicClient

\* what a call of a public method leaves behind
Called(op, arg, resp, raised, value) ==
    [op |-> op, arg |-> arg, resp |-> resp, raised |-> raised, value |-> value,
     flip |-> api.flip]

\* the answers of an HTTP endpoint to a call from outside changeIP: one
\* rejected fetch (its status and body are never looked at), and every status
\* with a body that decodes and one that does not
CallResponses ==
    {resp \in ProbeResponses :
        /\ resp.body # "ip2"
        /\ resp.net = "error" => (resp.status = "bad" /\ resp.body = "undecodable")}

\* await tor.getCurrentIP(mode)
GetCurrentIPCall(mode, resp) ==
    /\ UNCHANGED net
    /\ api' = Called("getCurrentIP", mode, resp, FALSE,
                     GetCurrentIP(ConnectionConfig(mode), resp))
    /\ inv' = MarkStale(ConnectionConfig(mode))
    /\ UNCHANGED <<conn, socks, proxiedClient, publicClient, clients, pc, oldIP, newIP,
                   result, calls, fetched, now>>

\* the cases of the switch on responseType
Supported == {"json", "text", "arrayBuffer", "blob"}

\* the responseType arguments tried: two the switch knows, one it does not
ResponseTypes == {"json", "text", "xml"}

\* a fetchThroughTor whose catch lets the unsupported type through
FetchOutcomeRethrows(client, resp, responseType) ==
    IF client = NoClient \/ clients[client].closes > 0 THEN [raised |-> FALSE, value |-> Null]
    ELSE IF resp.net = "error" \/ resp.status = "bad" THEN [raised |-> FALSE, value |-> Null]
    ELSE IF responseType \notin Supported THEN [raised |-> TRUE, value |-> Null]
    ELSE IF responseType = "json" /\ resp.body = "undecodable"
    THEN [raised |-> FALSE, value |-> Null]
    ELSE [raised |-> FALSE, value |-> resp.body]

\* fetchThroughTor's try and catch: every throw inside the try, the one of the
\* switch's default branch included, becomes null
FetchOutcome(client, resp, responseType) ==
    IF client = NoClient \/ clients[client].closes > 0 THEN [raised |-> FALSE, value |-> Null]
    ELSE IF resp.net = "error" \/ resp.status = "bad" THEN [raised |-> FALSE, value |-> Null]
    ELSE IF responseType \notin Supported THEN [raised |-> FALSE, value |-> Null]
    ELSE IF responseType = "json" /\ resp.body = "undecodable"
    THEN [raised |-> FALSE, value |-> Null]
    ELSE [raised |-> FALSE, value |-> resp.body]

\* await tor.fetchThroughTor(url, responseType)
FetchThroughTorAs(resp, responseType) ==
    /\ UNCHANGED net
    /\ api' = Called("fetchThroughTor", responseType, resp,
                     FetchOutcome(proxiedClient, resp, responseType).raised,
                     FetchOutcome(proxiedClient, resp, responseType).value)
    /\ fetched' = proxiedClient
    /\ inv' = MarkStale(proxiedClient)
    /\ UNCHANGED <<conn, socks, proxiedClient, publicClient, clients, pc, oldIP, newIP,
                   result, calls, now>>

\* one step of a changeIP invocation, at most MaxSessions of them
Rotation(p) ==
    \/ StartSession(p)
    \/ \E resp \in EchoAnswers : ProbeOld(p, resp)
    \/ ConnectBegin(p)
    \/ ConnectOk(p)
    \/ ConnectFail(p)
    \/ \E ok \in BOOLEAN : AuthWrite(p, ok)
    \/ \E read \in AuthReads : AuthRead(p, read)
    \/ \E ok \in BOOLEAN : NewnymWrite(p, ok)
    \/ \E read \in NewnymReads : NewnymRead(p, read)
    \/ \E ok \in BOOLEAN : SubscribeWrite(p, ok)
    \/ \E read \in AckReads : SubscribeRead(p, read)
    \/ \E read \in EventReads : WaitRead(p, read)
    \/ \E ok \in BOOLEAN : UnsubWrite(p, ok)
    \/ \E read \in UnsubReads : UnsubRead(p, read)
    \/ \E closeThrows, createOk \in BOOLEAN : Replace(p, closeThrows, createOk)
    \/ \E resp \in EchoAnswers : ProbeNew(p, resp)

NextApi ==
    \/ \E p \in Procs : Rotation(p)
    \/ \E mode \in CONNECTION, resp \in CallResponses : GetCurrentIPCall(mode, resp)
    \/ \E resp \in CallResponses, responseType \in ResponseTypes :
           FetchThroughTorAs(resp, responseType)

SpecApi == Init /\ [][NextApi]_vars

\* conn.close() of a socket this side already closed rejects
DisconnectThrows == conn # NoConn /\ socks[conn].closes > 0

\* a disconnect that closes the socket and keeps the reference
DisconnectKeepsConn ==
    /\ UNCHANGED net
    /\ conn' = conn
    /\ socks' = IF conn # NoConn THEN [socks EXCEPT ![conn].closes = @ + 1] ELSE socks
    /\ api' = [Called("disconnect", IF conn # NoConn THEN "closed" ELSE "nothing",
                      NoResponse, DisconnectThrows, Null) EXCEPT !.flip = ~api.flip]
    /\ UNCHANGED <<proxiedClient, publicClient, clients, pc, oldIP, newIP, result, inv,
                   calls, fetched, now>>

\* a disconnect that drops the reference without closing the socket
DisconnectNoClose ==
    /\ UNCHANGED net
    /\ conn' = NoConn
    /\ socks' = socks
    /\ api' = [Called("disconnect", IF conn # NoConn THEN "closed" ELSE "nothing",
                      NoResponse, FALSE, Null) EXCEPT !.flip = ~api.flip]
    /\ UNCHANGED <<proxiedClient, publicClient, clients, pc, oldIP, newIP, result, inv,
                   calls, fetched, now>>

\* disconnect(): if (this.conn) { this.conn.close(); this.conn = null; }
Disconnect ==
    /\ UNCHANGED net
    /\ conn' = IF DisconnectThrows THEN conn ELSE NoConn
    /\ socks' = IF conn # NoConn THEN [socks EXCEPT ![conn].closes = @ + 1] ELSE socks
    /\ api' = [Called("disconnect", IF conn # NoConn THEN "closed" ELSE "nothing",
                      NoResponse, DisconnectThrows, Null) EXCEPT !.flip = ~api.flip]
    /\ UNCHANGED <<proxiedClient, publicClient, clients, pc, oldIP, newIP, result, inv,
                   calls, fetched, now>>

NextSession ==
    \/ \E p \in Procs : Rotation(p)
    \/ Disconnect

SpecSession == Init /\ [][NextSession]_vars

\* ------------------------------------------------- overlapping invocations
\* changeIP is invoked while another invocation may be suspended at an await
StartOverlap(p) ==
    /\ UNCHANGED net
    /\ ~InFlight(p)
    /\ calls < MaxCalls
    /\ calls' = calls + 1
    /\ pc' = [pc EXCEPT ![p] = "probeOld"]
    /\ oldIP' = [oldIP EXCEPT ![p] = Null]
    /\ newIP' = [newIP EXCEPT ![p] = Null]
    /\ result' = [result EXCEPT ![p] = NoResult]
    /\ inv' = [inv EXCEPT ![p] = [NoHistory EXCEPT !.call = calls + 1,
                                                   !.startedAt = now,
                                                   !.prevAt = PreviousCallAt,
                                                   !.startClient = proxiedClient]]
    /\ UNCHANGED <<conn, socks, proxiedClient, publicClient, clients, fetched, now, api>>

NextOverlap ==
    \E p \in Procs :
        \/ StartOverlap(p)
        \/ \E resp \in EchoAnswers : ProbeOld(p, resp)
        \/ ConnectBegin(p)
        \/ ConnectOk(p)
        \/ ConnectFail(p)
        \/ \E ok \in BOOLEAN : AuthWrite(p, ok)
        \/ \E read \in AuthReads : AuthRead(p, read)
        \/ \E ok \in BOOLEAN : NewnymWrite(p, ok)
        \/ \E read \in NewnymReads : NewnymRead(p, read)
        \/ \E ok \in BOOLEAN : SubscribeWrite(p, ok)
        \/ \E read \in AckReads : SubscribeRead(p, read)
        \/ \E read \in EventReads : WaitRead(p, read)
        \/ \E ok \in BOOLEAN : UnsubWrite(p, ok)
        \/ \E read \in UnsubReads : UnsubRead(p, read)
        \/ \E closeThrows, createOk \in BOOLEAN : Replace(p, closeThrows, createOk)
        \/ \E resp \in EchoAnswers : ProbeNew(p, resp)

SpecOverlap == Init /\ [][NextOverlap]_vars

\* ------------------------------------------------------------------ claims
Returned(p) == pc[p] = "done"
Quiet == \A q \in Procs : ~InFlight(q)
Wire(p) == IF inv[p].sock = NoConn THEN <<>> ELSE socks[inv[p].sock].wire
Sent(p, command) == \E i \in DOMAIN Wire(p) : Wire(p)[i].command = command
Is250(text) == StartsWith(text, <<"2", "5", "0">>)
Latest(p) == inv[p].call = calls

\* C1: when changeIP has returned (invocations run one at a time, every step
\* outcome), the controller holds no control connection and the socket the
\* invocation opened has been closed.
C1_ConnectionClosedOnReturn ==
    /\ Quiet => conn = NoConn
    /\ \A p \in Procs :
        (~InFlight(p) /\ inv[p].sock # NoConn) => socks[inv[p].sock].closes >= 1

C1_Witness ==
    \E p \in Procs : Returned(p) /\ result[p].success /\ inv[p].sock # NoConn

\* C2: no fault escapes changeIP: when a step raised, the invocation ends by
\* returning a result with success = false and a descriptive message, never by
\* raising.
C2_NoFaultEscapes ==
    \A p \in Procs :
        /\ pc[p] # "raised"
        /\ (~InFlight(p) /\ inv[p].fault # "none") =>
              /\ Returned(p)
              /\ ~result[p].success
              /\ Len(result[p].message) > 1
              /\ Head(result[p].message) = "Error changing IP: "

C2_Witness ==
    \E p \in Procs : Returned(p) /\ inv[p].fault = "construct" /\ ~result[p].success

C4_SameAddressIsFailure ==
    \A p \in Procs :
        (Returned(p) /\ inv[p].classified /\ newIP[p] \in Addresses /\ newIP[p] = oldIP[p]) =>
            /\ ~result[p].success
            /\ result[p].message = <<"IP change requested but same IP returned">>
            /\ Is250(inv[p].nymReply)
            /\ inv[p].built

C4_Witness ==
    \E p \in Procs :
        Returned(p) /\ inv[p].classified /\ newIP[p] \in Addresses /\ newIP[p] = oldIP[p]

\* C5: when the new probe fails, the message is "Failed to get new IP" for
\* every outcome of the old probe; "same IP returned" is used only when the new
\* probe succeeded and matched the old address.
C5_FailedProbeMessage ==
    \A p \in Procs :
        (Returned(p) /\ inv[p].classified) =>
            /\ newIP[p] = Null => result[p].message = <<"Failed to get new IP">>
            /\ result[p].message = <<"IP change requested but same IP returned">> =>
                  (newIP[p] \in Addresses /\ newIP[p] = oldIP[p])

\* C6: an AUTHENTICATE reply that does not start with 250 makes authenticate
\* fail with "Authentication failed" and the trimmed reply; changeIP returns
\* success = false, newIP = null and a message with both; SIGNAL NEWNYM is not
\* sent.
C6_AuthenticationFailure ==
    \A p \in Procs :
        (~InFlight(p) /\ inv[p].authReply # <<>> /\ ~Is250(inv[p].authReply)) =>
            /\ Returned(p)
            /\ inv[p].fault = "authenticate"
            /\ ~result[p].success
            /\ result[p].newIP = Null
            /\ Includes(result[p].message, <<"Authentication failed">>)
            /\ Trim(inv[p].authReply) # <<>>
            /\ Includes(result[p].message, Trim(inv[p].authReply))
            /\ ~Sent(p, "SIGNAL NEWNYM")

C6_Witness ==
    \E p \in Procs : Returned(p) /\ inv[p].authReply = Reply515

\* C7: in every result changeIP returns, aborted cycles included, oldIP is the
\* address the step-1 probe obtained, and none only when that probe failed.
C7_OldIPReported ==
    \A p \in Procs : Returned(p) => result[p].oldIP = oldIP[p]

\* C8: a SIGNAL NEWNYM reply that does not start with 250 aborts before the
\* event wait: no SETEVENTS CIRC is sent, the proxied client is not replaced,
\* no new probe is issued, and the result has success = false, newIP = null
\* and a message containing the trimmed reply.
C8_NewnymRejected ==
    \A p \in Procs :
        (~InFlight(p) /\ inv[p].nymReply # <<>> /\ ~Is250(inv[p].nymReply)) =>
            /\ Returned(p)
            /\ ~Sent(p, "SETEVENTS CIRC")
            /\ ~inv[p].swapped /\ inv[p].newClient = NoClient
            /\ Latest(p) => proxiedClient = inv[p].startClient
            /\ inv[p].probeClient = NoClient /\ ~inv[p].classified
            /\ ~result[p].success
            /\ result[p].newIP = Null
            /\ Trim(inv[p].nymReply) # <<>>
            /\ Includes(result[p].message, Trim(inv[p].nymReply))

C8_Witness ==
    \E p \in Procs : Returned(p) /\ inv[p].nymReply = Reply552 /\ Sent(p, "SIGNAL NEWNYM")

\* C9: after a changeIP that returned success = true, the proxied client the
\* controller holds (until the next invocation) was constructed during that
\* invocation, after the circuit-built event was observed, and is not closed;
\* the client that was current when the invocation started is used neither for
\* the new probe nor for any later fetch.
C9_FreshClientAfterSuccess ==
    \A p \in Procs :
        (Returned(p) /\ result[p].success) =>
            /\ inv[p].built
            /\ inv[p].newClient \in DOMAIN clients
            /\ inv[p].newClient # inv[p].startClient
            /\ inv[p].probeClient = inv[p].newClient
            /\ ~inv[p].stale
            /\ Latest(p) =>
                  /\ proxiedClient = inv[p].newClient
                  /\ clients[proxiedClient].closes = 0

C9_Witness ==
    \E p \in Procs :
        Returned(p) /\ result[p].success /\ Latest(p) /\ fetched = inv[p].newClient

\* C10: in every reachable state exactly one live proxied client exists: the
\* one the controller holds is not closed and every other proxied client ever
\* constructed has been closed.
C10_OneLiveProxiedClient ==
    /\ proxiedClient \in DOMAIN clients
    /\ clients[proxiedClient].closes = 0
    /\ \A c \in DOMAIN clients :
          (clients[c].kind = "proxied" /\ c # proxiedClient) => clients[c].closes >= 1
\* C11: replacing the proxied client disposes the previous one exactly once
\* and leaves the direct client alone: it is the client the constructor made,
\* never closed, through any number of changeIP invocations.
C11_DisposedOnceDirectUntouched ==
    /\ publicClient = 2
    /\ clients[publicClient].kind = "direct"
    /\ clients[publicClient].closes = 0
    /\ \A c \in DOMAIN clients : clients[c].kind = "proxied" => clients[c].closes <= 1
    /\ \A p \in Procs :
          inv[p].newClient # NoClient => clients[inv[p].startClient].closes = 1

\* C12: changeIP has a 10 second cooldown: an invocation made less than 10
\* seconds after the previous one sends no SIGNAL NEWNYM before the cooldown
\* has elapsed.
C12_Cooldown ==
    \A p \in Procs :
        (inv[p].prevAt >= 0 /\ inv[p].startedAt - inv[p].prevAt < Cooldown) =>
            \A i \in DOMAIN Wire(p) :
                Wire(p)[i].command = "SIGNAL NEWNYM" =>
                    Wire(p)[i].at - inv[p].prevAt >= Cooldown

\* the bytes of a chunk hold a circuit-built notification
HasBuilt(text) ==
    /\ Includes(text, <<"6", "5", "0", " ", "C", "I", "R", "C">>)
    /\ Includes(text, <<"B", "U", "I", "L", "T">>)

\* the daemon serves the connection invocation p opened
ServedBy(p) == inv[p].sock # NoConn /\ daemon.sock = inv[p].sock

\* C13: when the daemon has replied 250 to AUTHENTICATE and to SIGNAL NEWNYM
\* and has emitted a 650 CIRC 7 BUILT notification, the wait ends, however the
\* acknowledgment of SETEVENTS CIRC and the notification were cut into
\* chunks: the invocation is never left in the wait loop with everything the
\* daemon sent already read.
C13_BuiltNotificationEndsWait ==
    \A p \in Procs :
        (/\ ServedBy(p)
         /\ inv[p].authReply = Reply250
         /\ inv[p].nymReply = Reply250
         /\ daemon.built > 0
         /\ daemon.end = "open"
         /\ inbound = <<>>) => pc[p] # "wait"

\* C18: the chunk read and discarded as the acknowledgment of SETEVENTS CIRC
\* never holds a circuit-built notification, so none is lost before the wait
\* loop starts.
C18_AckHoldsNoNotification ==
    \A p \in Procs :
        ServedBy(p) =>
            /\ ~HasBuilt(daemon.ack)
            /\ ~Includes(daemon.ack, <<"B", "U", "I", "L", "T">>)

\* C14: getCurrentIP never raises and returns null on any fault - a network
\* error, a response with a bad HTTP status, a body that cannot be decoded -
\* and otherwise nothing but the address the endpoint reported.
C14_ProbeNullOnAnyFault ==
    api.op = "getCurrentIP" =>
        /\ ~api.raised
        /\ (\/ api.resp.net = "error"
            \/ api.resp.status = "bad"
            \/ api.resp.body = "undecodable") => api.value = Null
        /\ api.value # Null => api.value = api.resp.body

UnsupportedCall ==
    /\ api.op = "fetchThroughTor"
    /\ api.arg \notin {"json", "text", "arrayBuffer", "blob"}

\* C15, as claimed: a fetchThroughTor call with a response type other than
\* json, text, arrayBuffer or blob raises to its caller.
C15_UnsupportedTypeRaised == UnsupportedCall => api.raised

\* C15, amended: a fetchThroughTor call with a response type other than json,
\* text, arrayBuffer or blob does not raise; it returns null like every other
\* fault of the fetch.
C15_UnsupportedTypeIsNull == UnsupportedCall => (~api.raised /\ api.value = Null)

C15_Witness ==
    /\ UnsupportedCall
    /\ api.resp.net = "ok" /\ api.resp.status = "ok" /\ api.resp.body = "ip1"
    /\ fetched # NoClient /\ clients[fetched].closes = 0
    /\ api.value = Null

WritePcs == {"authWrite", "newnymWrite", "subscribeWrite", "unsubWrite"}
NotConnectedMessage ==
    <<"Error changing IP: ", "Error: ", "Not connected to Tor control port">>

\* C16: a sendCommand entered while there is no control connection fails with
\* the NotConnected error and does no I/O: no socket is written, read, opened
\* or closed and the session state stays as it was.
C16_NotConnectedNoIO ==
    [][\A p \in Procs :
          (pc[p] \in WritePcs /\ conn = NoConn /\ pc'[p] # pc[p]) =>
              /\ pc'[p] = "done"
              /\ ~result'[p].success
              /\ result'[p].message = NotConnectedMessage
              /\ conn' = NoConn
              /\ UNCHANGED <<socks, inbound, daemon, clients, proxiedClient, publicClient>>]_vars

C16_Witness ==
    \E p \in Procs :
        /\ Returned(p)
        /\ result[p].message = NotConnectedMessage
        /\ Sent(p, "AUTHENTICATE")

\* C17: disconnect never fails and is idempotent: it leaves no connection,
\* closes the socket once if there was one, and when there was none (as right
\* after another disconnect) it changes and closes nothing.
C17_DisconnectIdempotent ==
    [][api'.flip # api.flip =>
          /\ api'.op = "disconnect"
          /\ ~api'.raised
          /\ conn' = NoConn
          /\ conn # NoConn => socks' = [socks EXCEPT ![conn].closes = 1]
          /\ conn = NoConn => (socks' = socks /\ api'.arg = "nothing")
          /\ UNCHANGED <<proxiedClient, publicClient, clients, pc, oldIP, newIP, result,
                         inv, calls, fetched, now, inbound, daemon>>]_vars

C17_Witness ==
    /\ api.op = "disconnect" /\ api.arg = "nothing"
    /\ conn = NoConn
    /\ \E p \in Procs :
          InFlight(p) /\ inv[p].sock # NoConn /\ socks[inv[p].sock].closes = 1

\* the chunk that ended the wait loop held 650 CIRC and BUILT
BothTokens(tokens) ==
    /\ <<"6", "5", "0", " ", "C", "I", "R", "C">> \in tokens
    /\ <<"B", "U", "I", "L", "T">> \in tokens

FixedOrder == <<"AUTHENTICATE", "SIGNAL NEWNYM", "SETEVENTS CIRC", "SETEVENTS">>

\* C19: the commands an invocation has written are a prefix of AUTHENTICATE,
\* SIGNAL NEWNYM, SETEVENTS CIRC, SETEVENTS; the second is written only after
\* an AUTHENTICATE reply starting with 250 was read, the third only after a
\* NEWNYM reply starting with 250, the fourth only after a chunk with a
\* circuit-built notification was read.
C19_CommandOrder ==
    \A p \in Procs :
        /\ Len(Wire(p)) <= Len(FixedOrder)
        /\ \A i \in DOMAIN Wire(p) : Wire(p)[i].command = FixedOrder[i]
        /\ Len(Wire(p)) >= 2 => Is250(inv[p].authReply)
        /\ Len(Wire(p)) >= 3 => Is250(inv[p].nymReply)
        /\ Len(Wire(p)) >= 4 => BothTokens(inv[p].tokens)

C19_Witness ==
    \E p \in Procs : Returned(p) /\ Len(Wire(p)) = 4 /\ result[p].success

\* the failure results of a read of the wait loop that rejected
WaitRejected ==
    {<<"Error changing IP: ", "BadResource: ", "I/O fault on the control connection">>,
     <<"Error changing IP: ", "TypeError: ", "Cannot read properties of null">>}

C21_ConnectFailureAborts ==
    \A p \in Procs :
        (~InFlight(p) /\ inv[p].fault = "connect") =>
            /\ Returned(p)
            /\ ~result[p].success
            /\ result[p].newIP = Null
            /\ Len(result[p].message) >= 3
            /\ result[p].message[1] = "Error changing IP: "
            /\ result[p].message[3] = "Failed to connect to Tor control port: "
            /\ inv[p].sock = NoConn /\ Wire(p) = <<>>
            /\ ~inv[p].swapped /\ inv[p].newClient = NoClient
            /\ ~inv[p].classified
            /\ Latest(p) => (conn = NoConn /\ proxiedClient = inv[p].startClient)

C21_Witness ==
    \E p \in Procs :
        /\ Returned(p) /\ inv[p].fault = "connect" /\ Latest(p)
        /\ \A s \in DOMAIN socks : socks[s].closes > 0

\* the control sockets that were opened and not closed
OpenSockets == {s \in DOMAIN socks : socks[s].closes = 0}

\* C22: connect entered while a control connection is present opens no
\* socket and leaves the connection in place, and so no step leaves more than
\* one control socket open.
C22_ConnectIdempotent ==
    [][/\ \A p \in Procs :
            (pc[p] = "connect" /\ conn # NoConn /\ pc'[p] # pc[p]) =>
                (socks' = socks /\ conn' = conn /\ pc'[p] = "authWrite")
       /\ Cardinality(OpenSockets') <= 1]_vars

\* C23: with overlapping invocations at most one control socket is open at
\* any time, the controller's connection is the open one, and when all
\* invocations have returned every socket that was opened has been closed.
C23_NoSocketLeaked ==
    /\ Cardinality(OpenSockets) <= 1
    /\ \A s \in OpenSockets : conn = s
    /\ Quiet => (OpenSockets = {} /\ conn = NoConn)

\* invocation p opened a socket and, while p is suspended, the controller's
\* connection is gone: disconnect() ran after p's connect
Disconnected(p) == InFlight(p) /\ inv[p].sock # NoConn /\ conn = NoConn

\* C24, as claimed: when disconnect() ran at a suspension point of an
\* invocation that had connected, the invocation returns (it does not raise)
\* with success = false, its socket has been closed exactly once, and no
\* connection is held.
C24_DisconnectFailsRotation ==
    [][\A p \in Procs :
          (Disconnected(p) /\ ~InFlight(p)') =>
              /\ pc'[p] = "done"
              /\ socks'[inv[p].sock].closes = 1
              /\ conn' = NoConn
              /\ ~result'[p].success]_vars

\* C24, amended: as claimed while control-port work is still ahead of the
\* invocation; when disconnect() ran during the final probe, the invocation
\* returns its normal classification, which can be success = true.
C24_DisconnectClosesOnce ==
    [][\A p \in Procs :
          (Disconnected(p) /\ ~InFlight(p)') =>
              /\ pc'[p] = "done"
              /\ socks'[inv[p].sock].closes = 1
              /\ conn' = NoConn
              /\ pc[p] # "probeNew" => ~result'[p].success
              /\ pc[p] = "probeNew" =>
                    result'[p].success = (newIP'[p] # Null /\ newIP'[p] # oldIP[p])]_vars

C24_Witness ==
    \E p \in Procs :
        /\ Returned(p) /\ calls = 1
        /\ api.op = "disconnect" /\ api.arg = "closed"
        /\ inv[p].entered /\ inv[p].tokens = {}
        /\ socks[inv[p].sock].closes = 1
        /\ ~result[p].success
====
